---- MODULE Spec2Model ----
\* Lifecycle model of one FhirValidator instance (src/usage_example.js,
\* class FhirValidator): the runtime fields, the start()/stop() calls with
\* their suspension points, the event-loop callbacks of the child process
\* (exit, error), the health-probe loop and the guards of the client calls.
EXTENDS Integers, FiniteSets, Sequences, TLC

\* ---------------------------------------------------------------- bounds
MaxStarts == 2          \* start() calls in progress at the same time
MaxStops == 2           \* stop() calls in progress at the same time
MaxProcs == 2           \* children that exist at the same time
MaxTimeout == 1         \* largest config.timeout, in seconds of polling
MaxWait == 2           \* largest config.timeout where the polling is followed

\* ------------------------------------------------------------- constants
Null == 0
Failed == -1         \* the handle of a child that could not be spawned
DefaultPort == 8080
Ports == {DefaultPort}

StartIds == 1..MaxStarts
StopIds == 1..MaxStops
ProcIds == 1..MaxProcs
Timeouts == 0..MaxTimeout

\* this.baseUrl = `http://localhost:${port}`
NullUrl == <<>>
MkBaseUrl(p) == <<"http://localhost", p>>

ResourceKinds == {"string", "buffer", "object", "null", "number"}
ClientOps == {"validate", "validateBytes", "validateObject", "loadIG", "runTxTest"}
GuardedOps == {"validate", "loadIG", "runTxTest"}

\* the config object passed to start()
Configs ==
  [hasVersion : BOOLEAN, hasTxServer : BOOLEAN, hasTxLog : BOOLEAN,
   port : Ports, timeout : Timeouts,
   autoDownload : BOOLEAN, skipUpdateCheck : BOOLEAN]

\* ------------------------------------------------- artifact manager values
\* release tags upstream, and the values a version can have besides a tag
Tags == {"6.3.4", "6.4.0"}
NoTag == "none"               \* no release known (no JAR, or one of unknown origin)
NullVersion == "null"         \* null
Undefined == "undefined"      \* a property that is absent
Unknown == "unknown"          \* installedVersion || 'unknown'

\* asset.browser_download_url of the release tagged t
NoUrl == <<>>
UrlOf(t) == <<"https://github.com/hapifhir/org.hl7.fhir.core/releases/download", t>>

\* the sidecar file validatorJarPath + '.version': missing, not parseable,
\* or JSON text with (or without) a version property
\* new Date().toISOString()
Stamp == "timestamp"
JsonFile(v, u) ==
  [kind |-> "json", version |-> v, downloadUrl |-> u, downloadedAt |-> Stamp]
MissingFile ==
  [kind |-> "missing", version |-> Undefined, downloadUrl |-> NoUrl,
   downloadedAt |-> Undefined]
CorruptFile ==
  [kind |-> "corrupt", version |-> Undefined, downloadUrl |-> NoUrl,
   downloadedAt |-> Undefined]
Sidecars ==
  {MissingFile, CorruptFile, JsonFile(Undefined, NoUrl), JsonFile(NullVersion, NoUrl)}
    \cup {JsonFile(t, UrlOf(t)) : t \in Tags}

\* the body of the try block of getInstalledVersion: the value it returns,
\* "skip" when existsSync is false, "throws" when JSON.parse throws
ReadVersionFile(f) ==
  IF f.kind = "missing" THEN "skip"
  ELSE IF f.kind = "corrupt" THEN "throws"
  ELSE f.version

\* a getInstalledVersion without the catch
GetInstalledVersionNoCatch(f) ==
  IF ReadVersionFile(f) = "skip" THEN NullVersion ELSE ReadVersionFile(f)

\* getInstalledVersion(): the catch block logs and falls through to return null
GetInstalledVersion(f) ==
  IF ReadVersionFile(f) \in {"skip", "throws"} THEN NullVersion
  ELSE ReadVersionFile(f)

\* a saveVersionInfo that forgets the URL
SaveVersionInfoNoUrl(v, u) == JsonFile(v, NoUrl)

\* a saveVersionInfo that forgets the version
SaveVersionInfoNoVersion(v, u) == JsonFile(Undefined, u)

\* saveVersionInfo(version, downloadUrl): the file it writes
\* (JSON.stringify leaves out a property that is undefined)
SaveVersionInfo(v, u) == JsonFile(v, u)

\* !installedVersion
Falsy(v) == v \in {NullVersion, Undefined}

\* the skip test turned round on force
SkipPathForced(jarSeen, skip, force) == jarSeen /\ skip /\ force

\* jarExists && skipUpdateCheck && !force
SkipPath(jarSeen, skip, force) == jarSeen /\ skip /\ ~force

\* the download test without force
NeedsDownloadNoForce(force, jarSeen, installed, latestTag) ==
  ~jarSeen \/ Falsy(installed) \/ installed # latestTag

\* force || !jarExists || !installedVersion || installedVersion !== latest.version
NeedsDownload(force, jarSeen, installed, latestTag) ==
  force \/ ~jarSeen \/ Falsy(installed) \/ installed # latestTag

\* installedVersion !== null && installedVersion !== latest.version
Updated(installed, latestTag) == installed # NullVersion /\ installed # latestTag

\* ------------------------------------------------------ client call values
\* text is a sequence of pieces; it is empty when every piece is
Empty(t) == \A i \in 1..Len(t) : t[i] = ""
RECURSIVE Join(_)
\* list.join(',')
Join(list) ==
  IF Len(list) = 0 THEN <<>>
  ELSE IF Len(list) = 1 THEN <<list[1]>>
  ELSE <<list[1], ",">> \o Join(Tail(list))

\* an option or parameter of a call: not given, or given with a text
Absent == [given |-> FALSE, text |-> <<>>]
Given(t) == [given |-> TRUE, text |-> t]
\* a JavaScript value is truthy: given and not ''
Truthy(o) == o.given /\ ~Empty(o.text)

\* a query parameter of the request: not set, or set to a text
NotSet == [set |-> FALSE, text |-> <<>>]
Set(t) == [set |-> TRUE, text |-> t]
ParamNames ==
  {"profiles", "resourceIdRule", "anyExtensionsAllowed", "bpWarnings",
   "displayOption", "packageId", "version", "server", "suite", "test",
   "externalFile", "modes"}
NoQuery == [n \in ParamNames |-> NotSet]

\* options of validate: profiles is a list, anyExtensionsAllowed a boolean
ProfileLists == {<<>>, <<"p">>, <<"p", "q">>, <<"">>}
NoOptions ==
  [profiles |-> [given |-> FALSE, list |-> <<>>], resourceIdRule |-> Absent,
   anyExtensionsAllowed |-> [given |-> FALSE, value |-> FALSE],
   bpWarnings |-> Absent, displayOption |-> Absent]
Options ==
  [profiles : {[given |-> FALSE, list |-> <<>>]}
                \cup {[given |-> TRUE, list |-> l] : l \in ProfileLists},
   resourceIdRule : {Absent, Given(<<"">>), Given(<<"REQUIRED">>)},
   anyExtensionsAllowed : {[given |-> FALSE, value |-> FALSE],
                           [given |-> TRUE, value |-> FALSE],
                           [given |-> TRUE, value |-> TRUE]},
   bpWarnings : {Absent, Given(<<"Warning">>)},
   displayOption : {Absent, Given(<<"CHECK">>)}]

\* boolean.toString()
BoolText(b) == IF b THEN <<"true">> ELSE <<"false">>

\* the query parameters validate builds from its options
QueryOfValidate(o) ==
  [NoQuery EXCEPT
     !["profiles"] = IF o.profiles.given /\ Len(o.profiles.list) > 0
                       THEN Set(Join(o.profiles.list)) ELSE NotSet,
     !["resourceIdRule"] = IF Truthy(o.resourceIdRule)
                             THEN Set(o.resourceIdRule.text) ELSE NotSet,
     !["anyExtensionsAllowed"] =
        IF o.anyExtensionsAllowed.given
          THEN Set(BoolText(o.anyExtensionsAllowed.value)) ELSE NotSet,
     !["bpWarnings"] = IF Truthy(o.bpWarnings) THEN Set(o.bpWarnings.text) ELSE NotSet,
     !["displayOption"] = IF Truthy(o.displayOption)
                            THEN Set(o.displayOption.text) ELSE NotSet]

\* params of runTxTest: which properties are given (and not '')
TxParams ==
  [server : BOOLEAN, suiteName : BOOLEAN, testName : BOOLEAN, version : BOOLEAN,
   externalFile : BOOLEAN, modes : BOOLEAN]
NoTxParams ==
  [server |-> FALSE, suiteName |-> FALSE, testName |-> FALSE, version |-> FALSE,
   externalFile |-> FALSE, modes |-> FALSE]
\* !server || !suiteName || !testName || !version
TxParamsOK(q) == q.server /\ q.suiteName /\ q.testName /\ q.version

\* a runTxTest that always sends externalFile and modes
QueryOfTxTestAll(q) ==
  [NoQuery EXCEPT !["server"] = Set(<<"server">>), !["suite"] = Set(<<"suite">>),
                  !["test"] = Set(<<"test">>), !["version"] = Set(<<"version">>),
                  !["externalFile"] = Set(IF q.externalFile THEN <<"file">> ELSE <<>>),
                  !["modes"] = Set(IF q.modes THEN <<"modes">> ELSE <<>>)]

\* the query parameters runTxTest builds
QueryOfTxTest(q) ==
  [NoQuery EXCEPT !["server"] = Set(<<"server">>), !["suite"] = Set(<<"suite">>),
                  !["test"] = Set(<<"test">>), !["version"] = Set(<<"version">>),
                  !["externalFile"] = IF q.externalFile THEN Set(<<"file">>) ELSE NotSet,
                  !["modes"] = IF q.modes THEN Set(<<"modes">>) ELSE NotSet]

\* the query parameters loadIG builds
QueryOfLoadIG ==
  [NoQuery EXCEPT !["packageId"] = Set(<<"hl7.fhir.us.core">>),
                  !["version"] = Set(<<"6.0.0">>)]

\* the content type validate picks for a resource of this kind; markup tells
\* that the trimmed text of a string or Buffer starts with '<'. The format
\* argument of validateBytes is not passed on
ContentType(kind, markup, format) ==
  IF kind \in {"string", "buffer"} /\ markup THEN "application/fhir+xml"
  ELSE "application/fhir+json"

\* the answers of the engine: a status code and a body
HttpErrorFrom == 400
Statuses == {200, 399, HttpErrorFrom, 500}

Issue(sev, text, diag) == [severity |-> sev, text |-> text, diagnostics |-> diag]
IssueLists ==
  {<<>>,
   <<Issue("warning", Given(<<"w">>), Absent)>>,
   <<Issue("fatal", Given(<<"f">>), Absent)>>,
   <<Issue("error", Given(<<"t1">>), Given(<<"d1">>))>>,
   <<Issue("error", Absent, Given(<<"d1">>))>>,
   <<Issue("error", Given(<<"">>), Given(<<"d1">>))>>,
   <<Issue("error", Absent, Absent)>>,
   <<Issue("warning", Given(<<"w">>), Absent), Issue("error", Given(<<"t2">>), Absent)>>,
   <<Issue("error", Given(<<"t1">>), Absent), Issue("error", Given(<<"t2">>), Absent)>>}

\* a body is text JSON.parse fails on, the JSON null, or a JSON object with
\* a resourceType and an issue property that is absent, an array, or
\* an object that is no array
Body(parse, rt, shape, issue) ==
  [parse |-> parse, resourceType |-> rt, shape |-> shape, issue |-> issue]
NoBody == Body("none", "none", "absent", <<>>)
Bodies ==
  {Body("fail", "none", "absent", <<>>),
   Body("null", "none", "absent", <<>>),
   Body("ok", Undefined, "absent", <<>>),
   Body("ok", "Bundle", "array", <<Issue("error", Given(<<"t1">>), Absent)>>),
   Body("ok", "OperationOutcome", "absent", <<>>),
   Body("ok", "OperationOutcome", "object", <<>>)}
  \cup {Body("ok", "OperationOutcome", "array", l) : l \in IssueLists}

\* what runTxTest resolves to
Pass == [result |-> TRUE, message |-> Absent]
Fail(text) == [result |-> FALSE, message |-> Given(text)]
NoResult == [result |-> FALSE, message |-> Absent]

\* outcome.issue.find(issue => issue.severity === 'error')
ErrorIssues(l) == {i \in 1..Len(l) : l[i].severity = "error"}
FirstError(l) == l[CHOOSE i \in ErrorIssues(l) : \A j \in ErrorIssues(l) : i <= j]

\* errorIssue.details?.text || errorIssue.diagnostics || 'Test failed with error'
ErrorMessage(i) ==
  IF Truthy(i.text) THEN i.text.text
  ELSE IF Truthy(i.diagnostics) THEN i.diagnostics.text
  ELSE <<"Test failed with error">>

\* a classification that looks at the issues before the status
TxClassifyIssuesFirst(status, body) ==
  IF body.parse = "ok" /\ body.resourceType = "OperationOutcome"
     /\ body.shape = "array" /\ ErrorIssues(body.issue) # {}
    THEN Fail(ErrorMessage(FirstError(body.issue)))
  ELSE IF body.parse = "ok" /\ body.resourceType = "OperationOutcome"
          /\ body.shape # "object"
    THEN Pass
  ELSE IF status >= HttpErrorFrom THEN Fail(<<"HTTP error">>)
  ELSE Fail(<<"Failed to parse response">>)

\* a classification that resolves every failure without a message
TxClassifyNoMessage(status, body) ==
  IF status < HttpErrorFrom /\ body.parse = "ok"
     /\ body.resourceType = "OperationOutcome" /\ body.shape # "object"
     /\ (body.shape = "absent" \/ ErrorIssues(body.issue) = {})
    THEN Pass
  ELSE NoResult

\* the 'end' handler of runTxTest
TxClassify(status, body) ==
  IF status >= HttpErrorFrom THEN Fail(<<"HTTP error">>)
  ELSE IF body.parse \in {"fail", "null"} THEN Fail(<<"Failed to parse response">>)
  ELSE IF body.resourceType # "OperationOutcome"
    THEN Fail(<<"Unexpected response type">>)
  ELSE IF body.shape = "absent" \/ (body.shape = "array" /\ Len(body.issue) = 0)
    THEN Pass
  ELSE IF body.shape = "object" THEN Fail(<<"Failed to parse response">>)
  ELSE IF ErrorIssues(body.issue) # {}
    THEN Fail(ErrorMessage(FirstError(body.issue)))
  ELSE Pass

\* the request a call has issued
NoRequest == [sent |-> FALSE, path |-> "none", contentType |-> "none", query |-> NoQuery]
Request(path, ct, q) == [sent |-> TRUE, path |-> path, contentType |-> ct, query |-> q]

\* a client call: its inputs, the outcome of its guards, its request, what
\* came back (via), and how its promise settled; calls counts the calls of
\* resolve and reject
IdleCall ==
  [phase |-> "idle", op |-> "none", kind |-> "none", markup |-> FALSE,
   format |-> "none", opts |-> NoOptions, params |-> NoTxParams,
   guard |-> "none", req |-> NoRequest, via |-> "none", status |-> 0,
   body |-> NoBody, settle |-> "none", error |-> "none", result |-> NoResult,
   parsed |-> NoBody, calls |-> 0]

\* resolve or reject is called: only the first call settles the promise
Settle(c, how, err, res, parsed) ==
  IF c.settle # "none" THEN [c EXCEPT !.calls = @ + 1]
  ELSE [c EXCEPT !.phase = "settled", !.settle = how, !.error = err,
                 !.result = res, !.parsed = parsed, !.calls = @ + 1]

\* ------------------------------------------------------ engine output
\* a chunk of stdout is split into lines; a line is a sequence of pieces:
\* colour escapes and the words between single spaces, so that two spaces in
\* a row give an empty word
Esc == "ESC[32m"
Banner == <<"FHIR", "Validation", "tool", "Version">>
Lines ==
  {<<>>,
   <<"Loading">>,
   Banner \o <<"6.3.4", "(Git#", "abc)">>,
   <<Esc>> \o Banner \o <<"6.4.0">>,
   Banner,
   Banner \o <<"", "6.4.0">>,
   <<"Using">> \o Banner \o <<"6.3.4">>}

\* line.replace(/\u001b\[[0-9;]*m/g, '')
RECURSIVE StripEscapes(_)
StripEscapes(l) ==
  IF Len(l) = 0 THEN <<>>
  ELSE IF l[1] = Esc THEN StripEscapes(Tail(l))
  ELSE <<l[1]>> \o StripEscapes(Tail(l))

\* cleanLine.length > 1: the empty line is passed over (no line here has
\* exactly one character)
LongEnough(l) == Len(l) > 0

\* cleanLine.startsWith('FHIR Validation tool Version')
StartsWithBanner(l) == Len(l) >= Len(Banner) /\ SubSeq(l, 1, Len(Banner)) = Banner

\* cleanLine.split(' ')[4]
VersionPart(l) == IF Len(l) > Len(Banner) THEN l[Len(Banner) + 1] ELSE Undefined

\* !this.version
NoVersionYet(v) == v \in {Undefined, ""}

\* checkForVersion(cleanLine): the value of this.version after it
CheckForVersion(v, l) ==
  IF NoVersionYet(v) /\ StartsWithBanner(l) THEN VersionPart(l) ELSE v

\* ------------------------------------------------------ downloadFile
\* redirectCount > 5
MaxRedirects == 5

\* the Location header of a redirect: an absolute URL, or a path relative to
\* the URL that was asked
Locations == {"absolute", "relative"}

\* the status codes of responses that are not followed as a redirect: 200,
\* a 3xx without a Location header, and two errors
FinalStatuses == {200, 304, 404, 500}

\* the destination before the call
PriorDest == {"absent", "old"}

IdleDownload ==
  [pc |-> "idle", count |-> 0, temp |-> "absent", dest |-> "absent",
   prior |-> "absent", outcome |-> "none", status |-> 0]

\* reject(...) and resolve(): the first settlement stays
SettleDownload(d, o) ==
  IF d.outcome = "none" THEN [d EXCEPT !.outcome = o] ELSE d

\* if (redirectCount > 5)
TooMany(n) == n > MaxRedirects

\* downloadWithRedirects(downloadUrl, redirectCount) up to the request it
\* issues: new URL() throws on a URL that is not absolute, and then neither
\* a request is made nor the promise settled
DownloadWithRedirects(d, loc, n) ==
  IF TooMany(n)
  THEN [SettleDownload(d, "tooManyRedirects") EXCEPT !.pc = "done", !.count = n]
  ELSE IF loc = "relative"
  THEN [d EXCEPT !.pc = "thrown", !.count = n]
  ELSE [d EXCEPT !.pc = "requesting", !.count = n]

\* ------------------------------------------------------ legacy service
\* initialize calls that may await the native init at one time
MaxInits == 2

\* the operations that need an initialized validator
ServiceOps ==
  {"loadIG", "connectToTerminologyServer", "validateResource", "seeResource",
   "dropResource", "getStatus", "convertResource", "unConvertResource"}

NoServiceCall == [op |-> "none", threw |-> FALSE, value |-> FALSE,
                  configured |-> FALSE, ready |-> FALSE]

\* new FHIRValidatorService(); configured and ready are history: configureJava
\* has succeeded, initialize has succeeded with no shutdown since
NewService ==
  [javaConfigured |-> FALSE, initialized |-> FALSE, nativeHostServices |-> FALSE,
   pending |-> 0, configured |-> FALSE, ready |-> FALSE,
   last |-> NoServiceCall]

\* the record of a call: what it did, in the history it was made in
ServiceCall(v, op, threw, value) ==
  [op |-> op, threw |-> threw, value |-> value,
   configured |-> v.configured, ready |-> v.ready]

\* isReady()
IsReady(v) == v.initialized /\ v.nativeHostServices

VARIABLES
  process,     \* this.process: Null, the id of the child held, or Failed
  port,        \* this.port
  baseUrl,     \* this.baseUrl
  isReady,     \* this.isReady
  jarExists,   \* fs.existsSync(this.validatorJarPath)
  procState,   \* per child id: "none" or "alive" (spawned and not exited)
  killed,      \* per child: ChildProcess.killed
  errorPending, \* the 'error' event of a failed spawn is queued
  starts,      \* per start() call: its position and locals
  stops,       \* per stop() call: its position, the child it listens to
  client,      \* the validate/loadIG/runTxTest call being made, its outcome
  crashEra,    \* history: the held child exited unrequested, and start()
               \* has not been called since
  okSince,     \* history: a probe was answered 405 since the handle was set
  jarContent,  \* the release the JAR at validatorJarPath was downloaded from
  sidecar,     \* the file at versionFilePath
  latest,      \* the tag of the latest release upstream
  ens,         \* the ensureValidator call being made: position and locals
  prev,        \* history: the call before was made with no options on a
               \* target without JAR and sidecar, it downloaded, and upstream
               \* has not changed since its lookup; the version it reported
  giv,         \* the getInstalledVersion call being made and its value
  saved,       \* history: the arguments of the last saveVersionInfo call and
               \* the kind of sidecar it overwrote
  call,        \* the client call being followed to its settlement: inputs,
               \* request, response and the value of its promise
  version,     \* this.version: the engine version read from stdout
  banner,      \* history: a line starting with the banner was read
  dl,          \* the downloadFile call being followed: its requests, the temp
               \* file, the destination and the settlement of its promise
  svc          \* the legacy FHIRValidatorService: its flags, the initialize
               \* calls awaiting the native init, and the last call's result

vars == <<process, port, baseUrl, isReady, jarExists, procState, killed, errorPending,
          starts, stops, client, crashEra, okSince>>

runtime == <<process, port, baseUrl, isReady>>

artifact == <<jarContent, sidecar, latest, ens, prev, giv, saved>>
lifecycle == <<process, port, baseUrl, isReady, procState, killed, errorPending,
               starts, stops, client, crashEra, okSince>>
extra == <<version, banner, dl, svc>>
allvars == <<vars, artifact, call, extra>>
nonlife == <<artifact, call, extra>>
nonart == <<lifecycle, call, extra>>
files == <<jarExists, jarContent, sidecar>>

\* ------------------------------------------------------------ start() call
\* pc: "idle", "ensured", "ensuring", "probing", "answered", "sleeping",
\* "done". has is history: which of version, txServer, txLog the config of
\* the call had; auto is history: the autoDownload of that config, kept
\* until the call has spawned; stopped is history: stop() was called while
\* this call was in progress, and start() has not been called since
AllThree == [version |-> TRUE, txServer |-> TRUE, txLog |-> TRUE]
IdleStart ==
  [pc |-> "idle", result |-> "none", has |-> AllThree, auto |-> FALSE,
   stopped |-> FALSE, port |-> Null, timeout |-> 0, elapsed |-> 0]

\* a settled call: its locals are dead
Settled(r, res) ==
  [IdleStart EXCEPT !.pc = "done", !.result = res, !.has = r.has,
                    !.auto = r.auto, !.stopped = r.stopped]

IdleStop == [pc |-> "idle", target |-> Null, via |-> "none"]
Resolved(how) == [pc |-> "resolved", target |-> Null, via |-> how]

NoClient == [op |-> "none", kind |-> "none", paramsOK |-> TRUE, outcome |-> "none"]

\* ensureValidator(options) call: pc "idle", "lookup", "downloading", "done".
\* jarSeen, installed and latest are its locals jarExists, installedVersion
\* and latest.version; outcome "ok" or the error it rejects with; version,
\* updated, downloaded the object it resolves to. History: net counts the
\* network requests issued, before holds the files as they were at the
\* call, stable tells that upstream has not changed since the lookup
FreshTarget == <<FALSE, NoTag, MissingFile>>
IdleEnsure ==
  [pc |-> "idle", force |-> FALSE, skip |-> FALSE, jarSeen |-> FALSE,
   installed |-> NullVersion, latest |-> NoTag, outcome |-> "none",
   version |-> NoTag, updated |-> FALSE, downloaded |-> FALSE,
   net |-> 0, before |-> FreshTarget, stable |-> TRUE]
NoPrev == [ok |-> FALSE, version |-> NoTag]
NoGiv == [called |-> FALSE, value |-> NullVersion]
NoSaved == [valid |-> FALSE, version |-> NoTag, url |-> NoUrl, over |-> "none"]
Saving(v, u) == [valid |-> TRUE, version |-> v, url |-> u, over |-> sidecar.kind]

\* the constructor: this.version = undefined
ExtraInit ==
  /\ version = Undefined
  /\ banner = FALSE
  /\ dl = IdleDownload
  /\ svc = NewService

\* the constructor
LifeInit ==
  /\ ExtraInit
  /\ process = Null
  /\ port = Null
  /\ baseUrl = NullUrl
  /\ isReady = FALSE
  /\ jarExists \in BOOLEAN
  /\ procState = [p \in ProcIds |-> "none"]
  /\ killed = [p \in ProcIds |-> FALSE]
  /\ errorPending = FALSE
  /\ starts = [c \in StartIds |-> IdleStart]
  /\ stops = [s \in StopIds |-> IdleStop]
  /\ client = NoClient
  /\ crashEra = FALSE
  /\ okSince = FALSE
  /\ call = IdleCall

\* no artifact call is made and nothing is known of the files but whether
\* the JAR exists
ArtifactQuiet ==
  /\ jarContent = NoTag
  /\ sidecar = MissingFile
  /\ latest = CHOOSE t \in Tags : TRUE
  /\ ens = IdleEnsure
  /\ prev = NoPrev
  /\ giv = NoGiv
  /\ saved = NoSaved

Init == LifeInit /\ ArtifactQuiet

\* the instance with any files at its paths and any release upstream
ArtInit ==
  /\ LifeInit
  /\ jarContent \in (IF jarExists THEN Tags \cup {NoTag} ELSE {NoTag})
  /\ sidecar \in Sidecars
  /\ latest \in Tags
  /\ ens = IdleEnsure
  /\ prev = NoPrev
  /\ giv = NoGiv
  /\ saved = NoSaved

\* a new call takes the first free slot
NextStart(c) == starts[c].pc = "idle" /\ \A d \in StartIds : d < c => starts[d].pc # "idle"
NextStop(s) == stops[s].pc = "idle" /\ \A t \in StopIds : t < s => stops[t].pc # "idle"

\* a new child takes the first free id; a start() that may spawn is made
\* only while an id is left for it
FreeProcs == {p \in ProcIds : procState[p] = "none"}
NewProc == CHOOSE p \in FreeProcs : \A q \in FreeProcs : p <= q
Unspawned == {c \in StartIds : starts[c].pc \in {"ensured", "ensuring"}}
CanSpawn == Cardinality(FreeProcs) > Cardinality(Unspawned)

\* run-to-completion: the reaction to a promise that has just settled, and
\* a continuation queued as a microtask (or by process.nextTick), run before
\* the event loop delivers any further callback
CallRunning == client.op # "none"
SettlePending ==
  \/ CallRunning
  \/ \E c \in StartIds : starts[c].pc = "done"
  \/ \E s \in StopIds : stops[s].pc = "resolved"
MicrotaskPending ==
  \/ \E c \in StartIds : starts[c].pc = "ensured"
  \/ errorPending

\* a check that forgets txLog
ConfigMissingNoTxLog(cfg) == ~cfg.hasVersion \/ ~cfg.hasTxServer

\* !version || !txServer || !txLog
ConfigMissing(cfg) == ~cfg.hasVersion \/ ~cfg.hasTxServer \/ ~cfg.hasTxLog

\* cleanup(): the four runtime fields, together
Cleanup ==
  /\ process' = Null
  /\ port' = Null
  /\ baseUrl' = NullUrl
  /\ isReady' = FALSE
  /\ okSince' = FALSE

\* waitForReady entered at elapsed = 0: either the loop condition fails at
\* once (timeout 0) or the first health probe is issued
EnterWait(r, tmo) ==
  IF 0 < tmo
    THEN [r EXCEPT !.pc = "probing", !.timeout = tmo, !.elapsed = 0,
                   !.port = Null, !.auto = FALSE]
    ELSE Settled(r, "ReadyTimeout")

\* start(), from "this.port = port" to the first await of waitForReady;
\* ok tells whether spawn() got a running child
SpawnAndWait(ss, c, r, prt, tmo, ok) ==
  /\ port' = prt
  /\ baseUrl' = MkBaseUrl(prt)
  /\ process' = IF ok THEN NewProc ELSE Failed
  /\ procState' = IF ok THEN [procState EXCEPT ![NewProc] = "alive"] ELSE procState
  /\ errorPending' = ~ok
  /\ okSince' = FALSE
  /\ starts' = [ss EXCEPT ![c] = EnterWait(r, tmo)]
  /\ UNCHANGED <<isReady, killed>>

\* the same checks without the look at the JAR
StartGuardsNoJarCheck(cfg) ==
  IF process # Null THEN "AlreadyRunning"
  ELSE IF ~cfg.hasVersion \/ ~cfg.hasTxServer \/ ~cfg.hasTxLog THEN "InvalidConfig"
  ELSE "none"

\* the same checks with the config looked at before the handle
StartGuardsConfigFirst(cfg) ==
  IF ConfigMissing(cfg) THEN "InvalidConfig"
  ELSE IF process # Null THEN "AlreadyRunning"
  ELSE IF ~cfg.autoDownload /\ ~jarExists THEN "ArtifactMissing"
  ELSE "none"

\* the checks start(config) makes before it spawns, in the code's order:
\* the error it throws, or "none"
StartGuards(cfg) ==
  IF process # Null THEN "AlreadyRunning"
  ELSE IF ConfigMissing(cfg) THEN "InvalidConfig"
  ELSE IF ~cfg.autoDownload /\ ~jarExists THEN "ArtifactMissing"
  ELSE "none"

\* start(config), up to its first suspension point
StartCall(c, cfg) ==
  /\ UNCHANGED nonlife
  /\ NextStart(c)
  /\ ~SettlePending
  /\ LET r == [IdleStart EXCEPT !.has = [version |-> cfg.hasVersion,
                                          txServer |-> cfg.hasTxServer,
                                          txLog |-> cfg.hasTxLog],
                              !.auto = cfg.autoDownload]
         others == [d \in StartIds |-> [starts[d] EXCEPT !.stopped = FALSE]] IN
     IF StartGuards(cfg) # "none"
       THEN /\ starts' = [others EXCEPT ![c] = Settled(r, StartGuards(cfg))]
            /\ UNCHANGED <<runtime, jarExists, procState, killed, errorPending, okSince>>
     ELSE IF cfg.autoDownload
       THEN \* ensureValidator({skipUpdateCheck}) runs to its first await
            /\ CanSpawn
            /\ starts' = [others EXCEPT ![c] =
                 [r EXCEPT !.pc = IF jarExists /\ cfg.skipUpdateCheck
                                    THEN "ensured" ELSE "ensuring",
                           !.port = cfg.port, !.timeout = cfg.timeout]]
            /\ UNCHANGED <<runtime, jarExists, procState, killed, errorPending, okSince>>
     ELSE /\ CanSpawn
          /\ \E ok \in BOOLEAN : SpawnAndWait(others, c, r, cfg.port, cfg.timeout, ok)
          /\ UNCHANGED jarExists
  /\ crashEra' = FALSE
  /\ UNCHANGED <<stops, client>>

\* ensureValidator returned on its skip path: start() resumes and spawns
EnsureSkipResume(c) ==
  /\ UNCHANGED nonlife
  /\ starts[c].pc = "ensured"
  /\ ~SettlePending /\ ~errorPending
  /\ \E ok \in BOOLEAN :
       SpawnAndWait(starts, c, starts[c], starts[c].port, starts[c].timeout, ok)
  /\ UNCHANGED <<jarExists, stops, client, crashEra>>

\* an ensureValidator that may resolve although no JAR is in place
EnsureDoneNoBinary(c) ==
  /\ UNCHANGED nonlife
  /\ starts[c].pc = "ensuring"
  /\ ~SettlePending /\ ~MicrotaskPending
  /\ \/ /\ starts' = [starts EXCEPT ![c] = Settled(@, "ArtifactError")]
        /\ UNCHANGED <<runtime, procState, killed, errorPending, okSince>>
     \/ \E ok \in BOOLEAN :
          SpawnAndWait(starts, c, starts[c], starts[c].port, starts[c].timeout, ok)
  /\ UNCHANGED <<jarExists, stops, client, crashEra>>

\* ensureValidator settles on its network path. It rejects when the
\* release lookup or the download fails. When it resolves the JAR exists:
\* it was downloaded, or it was seen at the call and found up to date
EnsureDone(c) ==
  /\ UNCHANGED nonlife
  /\ starts[c].pc = "ensuring"
  /\ ~SettlePending /\ ~MicrotaskPending
  /\ \/ /\ starts' = [starts EXCEPT ![c] = Settled(@, "ArtifactError")]
        /\ UNCHANGED <<runtime, jarExists, procState, killed, errorPending, okSince>>
     \/ /\ jarExists' = TRUE
        /\ \E ok \in BOOLEAN :
             SpawnAndWait(starts, c, starts[c], starts[c].port, starts[c].timeout, ok)
  /\ UNCHANGED <<stops, client, crashEra>>

\* the engine answers a probe in flight with 405: a live child listens
EngineAnswer405(c) ==
  /\ UNCHANGED nonlife
  /\ starts[c].pc = "probing"
  /\ ~SettlePending
  /\ \E p \in ProcIds : procState[p] = "alive"
  /\ starts' = [starts EXCEPT ![c].pc = "answered"]
  /\ UNCHANGED <<runtime, jarExists, procState, killed, errorPending, stops,
                 client, crashEra, okSince>>

\* healthCheck rejects (other status, connection error, 5 s timeout): the
\* catch block starts the 1 s sleep
ProbeFail(c) ==
  /\ UNCHANGED nonlife
  /\ starts[c].pc = "probing"
  /\ ~SettlePending /\ ~MicrotaskPending
  /\ starts' = [starts EXCEPT ![c].pc = "sleeping"]
  /\ UNCHANGED <<runtime, jarExists, procState, killed, errorPending, stops,
                 client, crashEra, okSince>>

\* healthCheck resolves: this.isReady = true; return; start() resolves
ProbeOK(c) ==
  /\ UNCHANGED nonlife
  /\ starts[c].pc = "answered"
  /\ ~SettlePending /\ ~MicrotaskPending
  /\ isReady' = TRUE
  /\ okSince' = (process # Null)
  /\ starts' = [starts EXCEPT ![c] = Settled(@, "resolved")]
  /\ UNCHANGED <<process, port, baseUrl, jarExists, procState, killed,
                 errorPending, stops, client, crashEra>>

\* a waitForReady whose loop condition never sees time pass
SleepDoneClockStopped(c) ==
  /\ UNCHANGED nonlife
  /\ starts[c].pc = "sleeping"
  /\ ~SettlePending /\ ~MicrotaskPending
  /\ starts' = [starts EXCEPT ![c] =
       IF @.elapsed >= @.timeout THEN Settled(@, "ReadyTimeout")
       ELSE IF baseUrl = NullUrl THEN @
       ELSE [@ EXCEPT !.pc = "probing"]]
  /\ UNCHANGED <<runtime, jarExists, procState, killed, errorPending, stops,
                 client, crashEra, okSince>>

\* a waitForReady that kills the child and cleans up when it gives up
SleepDoneKillOnTimeout(c) ==
  /\ UNCHANGED nonlife
  /\ starts[c].pc = "sleeping"
  /\ ~SettlePending /\ ~MicrotaskPending
  /\ starts' = [starts EXCEPT ![c] = Settled(@, "ReadyTimeout")]
  /\ killed' = IF process \in ProcIds THEN [killed EXCEPT ![process] = TRUE]
               ELSE killed
  /\ Cleanup
  /\ UNCHANGED <<jarExists, procState, errorPending, stops, client, crashEra>>

\* the 1 s sleep is over (at least one more second has passed): the loop
\* condition is evaluated and, if it holds, the next probe is issued; with
\* baseUrl unset http.get throws at once and the catch block sleeps again
SleepDone(c) ==
  /\ UNCHANGED nonlife
  /\ starts[c].pc = "sleeping"
  /\ ~SettlePending /\ ~MicrotaskPending
  /\ \E e \in {starts[c].elapsed + 1, starts[c].timeout} :
       /\ e > starts[c].elapsed
       /\ starts' = [starts EXCEPT ![c] =
            IF e >= @.timeout THEN Settled(@, "ReadyTimeout")
            ELSE IF baseUrl = NullUrl THEN [@ EXCEPT !.elapsed = e]
            ELSE [@ EXCEPT !.pc = "probing", !.elapsed = e]]
  /\ UNCHANGED <<runtime, jarExists, procState, killed, errorPending, stops,
                 client, crashEra, okSince>>

\* the caller has taken the settled promise of start()
StartReturn(c) ==
  /\ UNCHANGED nonlife
  /\ starts[c].pc = "done"
  /\ starts' = [starts EXCEPT ![c] = IdleStart]
  /\ UNCHANGED <<runtime, jarExists, procState, killed, errorPending, stops,
                 client, crashEra, okSince>>

\* ChildProcess.kill('SIGKILL') on the handle h: the signal is sent, and
\* killed set, only when a child runs behind the handle
Kill(h) == IF h \in ProcIds THEN [killed EXCEPT ![h] = TRUE] ELSE killed
Killed(h) == h \in ProcIds /\ killed[h]

\* stop() is called: the start() calls in progress are marked
StopMarks ==
  [c \in StartIds |->
     IF starts[c].pc \in {"idle", "done"} THEN starts[c]
     ELSE [starts[c] EXCEPT !.stopped = TRUE]]

\* a stop() without the early return: it waits whether a handle is held or not
StopCallNoEarlyReturn(s) ==
  /\ UNCHANGED nonlife
  /\ NextStop(s)
  /\ ~SettlePending
  /\ stops' = [stops EXCEPT ![s] =
                 [pc |-> "waiting", target |-> process, via |-> "none"]]
  /\ killed' = Kill(process)
  /\ starts' = StopMarks
  /\ UNCHANGED <<runtime, jarExists, procState, errorPending, client,
                 crashEra, okSince>>

\* stop(), up to the promise it returns
StopCall(s) ==
  /\ UNCHANGED nonlife
  /\ NextStop(s)
  /\ ~SettlePending
  /\ IF process = Null
       THEN /\ stops' = [stops EXCEPT ![s] = Resolved("atOnce")]
            /\ UNCHANGED killed
       ELSE /\ stops' = [stops EXCEPT ![s] =
                           [pc |-> "waiting", target |-> process, via |-> "none"]]
            /\ killed' = Kill(process)
  /\ starts' = StopMarks
  /\ UNCHANGED <<runtime, jarExists, procState, errorPending, client,
                 crashEra, okSince>>

\* the timer callback sends a signal:
\* this.process && !this.process.killed
TimerKills == process # Null /\ ~Killed(process)

\* a timer that cleans up and resolves only while a handle is still held
TimerFireIfHeld(s) ==
  /\ UNCHANGED nonlife
  /\ stops[s].pc = "waiting"
  /\ ~SettlePending /\ ~MicrotaskPending
  /\ process # Null
  /\ killed' = IF ~Killed(process) THEN Kill(process) ELSE killed
  /\ Cleanup
  /\ stops' = [stops EXCEPT ![s] = Resolved("timer")]
  /\ UNCHANGED <<jarExists, procState, errorPending, starts, client, crashEra>>

\* stop()'s 10 s timer fires
TimerFire(s) ==
  /\ UNCHANGED nonlife
  /\ stops[s].pc = "waiting"
  /\ ~SettlePending /\ ~MicrotaskPending
  /\ killed' = IF TimerKills THEN Kill(process) ELSE killed
  /\ Cleanup
  /\ stops' = [stops EXCEPT ![s] = Resolved("timer")]
  /\ UNCHANGED <<jarExists, procState, errorPending, starts, client, crashEra>>

\* the caller has taken the resolved promise of stop()
StopReturn(s) ==
  /\ UNCHANGED nonlife
  /\ stops[s].pc = "resolved"
  /\ stops' = [stops EXCEPT ![s] = IdleStop]
  /\ UNCHANGED <<runtime, jarExists, procState, killed, errorPending, starts,
                 client, crashEra, okSince>>

\* the 'exit' event of child p: the handler registered by start() runs
\* cleanup(), then the onExit of every stop() listening to p clears its
\* timer, runs cleanup() and resolves
Exit(p) ==
  /\ UNCHANGED nonlife
  /\ procState[p] = "alive"
  /\ ~SettlePending /\ ~MicrotaskPending
  /\ procState' = [procState EXCEPT ![p] = "none"]
  /\ killed' = [killed EXCEPT ![p] = FALSE]
  /\ Cleanup
  /\ stops' = [s \in StopIds |->
       IF stops[s].pc = "waiting" /\ stops[s].target = p
         THEN Resolved("exit") ELSE stops[s]]
  /\ crashEra' = (crashEra \/ (p = process /\ ~killed[p]))
  /\ UNCHANGED <<jarExists, errorPending, starts, client>>

\* the 'error' event of a child that could not be spawned: the handler
\* logs and throws, outside any promise
ErrorEvent ==
  /\ UNCHANGED nonlife
  /\ errorPending
  /\ ~SettlePending
  /\ errorPending' = FALSE
  /\ UNCHANGED <<runtime, jarExists, procState, killed, starts, stops, client,
                 crashEra, okSince>>

\* the same guards with the inputs looked at before readiness
ClientOutcomeInputFirst(op, kind, paramsOK) ==
  IF op = "validateBytes" /\ kind # "buffer" THEN "TypeError"
  ELSE IF op = "validateObject" /\ kind \notin {"object", "buffer"} THEN "TypeError"
  ELSE IF op \in {"validate", "validateBytes", "validateObject"} /\ kind = "number"
    THEN "BadResource"
  ELSE IF op = "runTxTest" /\ ~paramsOK THEN "MissingParam"
  ELSE IF ~isReady THEN "NotReady"
  ELSE IF baseUrl = NullUrl THEN "InvalidUrl"
  ELSE "Sent"

\* the same guards with readiness looked at before the types
ClientOutcomeReadyFirst(op, kind, paramsOK) ==
  IF ~isReady THEN "NotReady"
  ELSE IF op = "validateBytes" /\ kind # "buffer" THEN "TypeError"
  ELSE IF op = "validateObject" /\ kind \notin {"object", "buffer"} THEN "TypeError"
  ELSE IF op \in {"validate", "validateBytes", "validateObject"} /\ kind = "number"
    THEN "BadResource"
  ELSE IF op = "runTxTest" /\ ~paramsOK THEN "MissingParam"
  ELSE IF baseUrl = NullUrl THEN "InvalidUrl"
  ELSE "Sent"

\* the synchronous part of a client call: its guards, in the code's order
ClientOutcome(op, kind, paramsOK) ==
  IF op = "validateBytes" /\ kind # "buffer" THEN "TypeError"
  ELSE IF op = "validateObject" /\ kind \notin {"object", "buffer"} THEN "TypeError"
  ELSE IF ~isReady THEN "NotReady"
  ELSE IF op \in {"validate", "validateBytes", "validateObject"} /\ kind = "number"
    THEN "BadResource"
  ELSE IF op = "runTxTest" /\ ~paramsOK THEN "MissingParam"
  ELSE IF baseUrl = NullUrl THEN "InvalidUrl"
  ELSE "Sent"

\* the arguments a call of op can vary in
ClientArgs(op) ==
  IF op = "runTxTest" THEN {<<"none", b>> : b \in BOOLEAN}
  ELSE IF op = "loadIG" THEN {<<"none", TRUE>>}
  ELSE {<<k, TRUE>> : k \in ResourceKinds}

ClientCall(op, kind, paramsOK) ==
  /\ UNCHANGED nonlife
  /\ ~SettlePending
  /\ client' = [op |-> op, kind |-> kind, paramsOK |-> paramsOK,
                outcome |-> ClientOutcome(op, kind, paramsOK)]
  /\ UNCHANGED <<runtime, jarExists, procState, killed, errorPending, starts,
                 stops, crashEra, okSince>>

\* the call has returned its promise to the caller
ClientReturn ==
  /\ UNCHANGED nonlife
  /\ CallRunning
  /\ client' = NoClient
  /\ UNCHANGED <<runtime, jarExists, procState, killed, errorPending, starts,
                 stops, crashEra, okSince>>

\* ------------------------------------------------------ artifact manager
\* ensureValidator({force, skipUpdateCheck}), up to its first await or, on
\* the skip path, to its return
EnsureCall(force, skip) ==
  /\ ens.pc = "idle"
  /\ ~giv.called
  /\ LET r == [IdleEnsure EXCEPT !.force = force, !.skip = skip,
                                 !.jarSeen = jarExists,
                                 !.installed = GetInstalledVersion(sidecar),
                                 !.before = files] IN
     ens' = IF SkipPath(jarExists, skip, force)
              THEN [r EXCEPT !.pc = "done", !.outcome = "ok",
                             !.version = IF Falsy(r.installed) THEN Unknown
                                         ELSE r.installed]
              ELSE [r EXCEPT !.pc = "lookup", !.net = 1]
  /\ UNCHANGED <<files, latest, prev, giv, saved, nonart>>

\* getLatestRelease settles: it rejects (status, parse, transport, timeout),
\* or resolves and ensureValidator decides whether to download
LookupDone ==
  /\ ens.pc = "lookup"
  /\ ~giv.called
  /\ \/ ens' = [ens EXCEPT !.pc = "done", !.outcome = "LookupError"]
     \/ ens' = IF NeedsDownload(ens.force, ens.jarSeen, ens.installed, latest)
                THEN [ens EXCEPT !.pc = "downloading", !.latest = latest,
                                 !.net = 2]
                ELSE [ens EXCEPT !.pc = "done", !.latest = latest,
                                 !.outcome = "ok", !.version = ens.installed]
  /\ UNCHANGED <<files, latest, prev, giv, saved, nonart>>

\* a download that writes the sidecar whether the transfer succeeds or not
DownloadDoneSavesFirst ==
  /\ ens.pc = "downloading"
  /\ ~giv.called
  /\ sidecar' = SaveVersionInfo(ens.latest, UrlOf(ens.latest))
  /\ saved' = Saving(ens.latest, UrlOf(ens.latest))
  /\ \/ /\ ens' = [ens EXCEPT !.pc = "done", !.outcome = "DownloadError"]
        /\ UNCHANGED <<jarExists, jarContent>>
     \/ /\ jarExists' = TRUE
        /\ jarContent' = ens.latest
        /\ ens' = [ens EXCEPT !.pc = "done", !.outcome = "ok",
                              !.version = ens.latest,
                              !.updated = Updated(ens.installed, ens.latest),
                              !.downloaded = TRUE]
  /\ UNCHANGED <<latest, prev, giv, nonart>>

\* downloadFile settles: it rejects with the final path untouched, or the
\* temp file is renamed into place and ensureValidator goes on to
\* saveVersionInfo, which writes the sidecar or throws
DownloadDone ==
  /\ ens.pc = "downloading"
  /\ ~giv.called
  /\ \/ /\ ens' = [ens EXCEPT !.pc = "done", !.outcome = "DownloadError"]
        /\ UNCHANGED <<files, saved>>
     \/ /\ jarExists' = TRUE
        /\ jarContent' = ens.latest
        /\ \/ /\ sidecar' = SaveVersionInfo(ens.latest, UrlOf(ens.latest))
              /\ saved' = Saving(ens.latest, UrlOf(ens.latest))
              /\ ens' = [ens EXCEPT !.pc = "done", !.outcome = "ok",
                                    !.version = ens.latest,
                                    !.updated = Updated(ens.installed, ens.latest),
                                    !.downloaded = TRUE]
           \/ /\ UNCHANGED <<sidecar, saved>>
              /\ ens' = [ens EXCEPT !.pc = "done", !.outcome = "SaveError"]
  /\ UNCHANGED <<latest, prev, giv, nonart>>

\* the caller has taken the settled promise of ensureValidator
EnsureReturn ==
  /\ ens.pc = "done"
  /\ ~giv.called
  /\ ens' = IdleEnsure
  /\ prev' = IF /\ ens.outcome = "ok" /\ ens.downloaded
                /\ ~ens.force /\ ~ens.skip
                /\ ens.before = FreshTarget
                /\ ens.stable
              THEN [ok |-> TRUE, version |-> ens.version]
              ELSE NoPrev
  /\ UNCHANGED <<files, latest, giv, saved, nonart>>

\* upstream publishes (or withdraws) a release: the latest tag changes
ReleasePublished(t) ==
  /\ t # latest
  /\ ens.pc # "done"
  /\ ~giv.called
  /\ latest' = t
  /\ ens' = IF ens.pc = "downloading" THEN [ens EXCEPT !.stable = FALSE] ELSE ens
  /\ prev' = NoPrev
  /\ UNCHANGED <<files, giv, saved, nonart>>

\* getInstalledVersion() called by the user
GetInstalledCall ==
  /\ ens.pc # "done"
  /\ ~giv.called
  /\ giv' = [called |-> TRUE, value |-> GetInstalledVersion(sidecar)]
  /\ UNCHANGED <<files, latest, ens, prev, saved, nonart>>

GetInstalledReturn ==
  /\ giv.called
  /\ giv' = NoGiv
  /\ UNCHANGED <<files, latest, ens, prev, saved, nonart>>

\* saveVersionInfo(v, u) called by the user
SaveVersionCall(v, u) ==
  /\ ens.pc = "idle"
  /\ ~giv.called
  /\ sidecar' = SaveVersionInfo(v, u)
  /\ saved' = Saving(v, u)
  /\ UNCHANGED <<jarExists, jarContent, latest, ens, prev, giv, nonart>>

ArtNext ==
  \/ \E force \in BOOLEAN, skip \in BOOLEAN : EnsureCall(force, skip)
  \/ LookupDone
  \/ DownloadDone
  \/ EnsureReturn
  \/ \E t \in Tags : ReleasePublished(t)
  \/ GetInstalledCall
  \/ GetInstalledReturn

ArtSpec == ArtInit /\ [][ArtNext]_allvars

\* saveVersionInfo and getInstalledVersion called by the user, on any target
SaveNext ==
  \/ \E v \in Tags, t \in Tags : SaveVersionCall(v, UrlOf(t))
  \/ GetInstalledCall
  \/ GetInstalledReturn

SaveSpec == ArtInit /\ [][SaveNext]_allvars

\* ------------------------------------------------------------ client calls
\* the states of the wrapper a client call can meet: never started, started
\* and not yet ready, ready, and marked ready with the handle and the base
\* URL cleared (an exit of the child between the last probe and
\* this.isReady = true)
ClientRuntimes ==
  {[process |-> Null, baseUrl |-> NullUrl, isReady |-> FALSE],
   [process |-> 1, baseUrl |-> MkBaseUrl(DefaultPort), isReady |-> FALSE],
   [process |-> 1, baseUrl |-> MkBaseUrl(DefaultPort), isReady |-> TRUE],
   [process |-> Null, baseUrl |-> NullUrl, isReady |-> TRUE]}

ClientInit ==
  /\ \E r \in ClientRuntimes :
       /\ process = r.process
       /\ port = IF r.baseUrl = NullUrl THEN Null ELSE DefaultPort
       /\ baseUrl = r.baseUrl
       /\ isReady = r.isReady
       /\ procState = [p \in ProcIds |-> IF p = r.process THEN "alive" ELSE "none"]
  /\ jarExists = TRUE
  /\ killed = [p \in ProcIds |-> FALSE]
  /\ errorPending = FALSE
  /\ starts = [c \in StartIds |-> IdleStart]
  /\ stops = [s \in StopIds |-> IdleStop]
  /\ client = NoClient
  /\ crashEra = FALSE
  /\ okSince = FALSE
  /\ ArtifactQuiet
  /\ call = IdleCall
  /\ ExtraInit

\* the synchronous part of a call: the guards reject it, or the request is
\* issued
Begin(c, req) ==
  LET g == ClientOutcome(c.op, c.kind, TxParamsOK(c.params))
  IN  IF g = "Sent"
        THEN [c EXCEPT !.guard = g, !.phase = "sent", !.req = req]
        ELSE [c EXCEPT !.guard = g, !.phase = "settled", !.settle = "rejected",
                       !.error = g, !.calls = 1]

\* the resources of each kind: markup only tells strings and Buffers apart
Resources ==
  {<<k, m>> \in ResourceKinds \X BOOLEAN : m => k \in {"string", "buffer"}}

\* validate(resource, options)
ValidateCall(kind, markup, opts) ==
  /\ call.phase = "idle"
  /\ call' =
     Begin([IdleCall EXCEPT !.op = "validate", !.kind = kind, !.markup = markup,
                              !.opts = opts],
             Request("/validateResource", ContentType(kind, markup, "none"),
                     QueryOfValidate(opts)))
  /\ UNCHANGED <<vars, artifact, extra>>

\* validateBytes(resourceBytes, format): the options are left at their default
ValidateBytesCall(kind, markup, format) ==
  /\ call.phase = "idle"
  /\ call' =
     Begin([IdleCall EXCEPT !.op = "validateBytes", !.kind = kind, !.markup = markup,
                              !.format = format],
             Request("/validateResource", ContentType(kind, markup, format),
                     QueryOfValidate(NoOptions)))
  /\ UNCHANGED <<vars, artifact, extra>>

\* validateObject(resourceObject)
ValidateObjectCall(kind, markup) ==
  /\ call.phase = "idle"
  /\ call' =
     Begin([IdleCall EXCEPT !.op = "validateObject", !.kind = kind, !.markup = markup],
             Request("/validateResource", ContentType(kind, markup, "none"),
                     QueryOfValidate(NoOptions)))
  /\ UNCHANGED <<vars, artifact, extra>>

\* loadIG(packageId, version)
LoadIGCall ==
  /\ call.phase = "idle"
  /\ call' = Begin([IdleCall EXCEPT !.op = "loadIG"],
                   Request("/loadIG", "none", QueryOfLoadIG))
  /\ UNCHANGED <<vars, artifact, extra>>

\* runTxTest(params)
TxTestCall(q) ==
  /\ call.phase = "idle"
  /\ call' =
     Begin([IdleCall EXCEPT !.op = "runTxTest", !.params = q],
             Request("/txTest", "none", QueryOfTxTest(q)))
  /\ UNCHANGED <<vars, artifact, extra>>

\* the 'error' event of the request
RequestError ==
  /\ call.phase = "sent"
  /\ call' = IF call.op = "runTxTest"
               THEN Settle([call EXCEPT !.via = "error"], "resolved", "none",
                           Fail(<<"Request failed">>), NoBody)
               ELSE Settle([call EXCEPT !.via = "error"], "rejected", "RequestError",
                           NoResult, NoBody)
  /\ UNCHANGED <<vars, artifact, extra>>

\* the timeout of the request: req.destroy(), then the promise is settled
RequestTimeout ==
  /\ call.phase = "sent"
  /\ call' = IF call.op = "runTxTest"
               THEN Settle([call EXCEPT !.via = "timeout"], "resolved", "none",
                           Fail(<<"Request timeout">>), NoBody)
               ELSE Settle([call EXCEPT !.via = "timeout"], "rejected", "Timeout",
                           NoResult, NoBody)
  /\ UNCHANGED <<vars, artifact, extra>>

\* the 'error' event of a request destroyed by its timeout: the handler
\* settles a promise that is settled already
LateError ==
  /\ call.phase = "settled"
  /\ call.via = "timeout"
  /\ call.calls = 1
  /\ call' = IF call.op = "runTxTest"
               THEN Settle(call, "resolved", "none", Fail(<<"Request failed">>), NoBody)
               ELSE Settle(call, "rejected", "RequestError", NoResult, NoBody)
  /\ UNCHANGED <<vars, artifact, extra>>

\* the 'end' event of the response
ResponseEnd(status, body) ==
  /\ call.phase = "sent"
  /\ LET c == [call EXCEPT !.via = "response", !.status = status, !.body = body]
     IN  call' =
           IF call.op = "runTxTest"
             THEN Settle(c, "resolved", "none", TxClassify(status, body), NoBody)
           ELSE IF body.parse = "fail"
             THEN Settle(c, "rejected", "ParseError", NoResult, body)
           ELSE Settle(c, "resolved", "none", NoResult, body)
  /\ UNCHANGED <<vars, artifact, extra>>

\* the caller has taken the settled promise
CallReturn ==
  /\ call.phase = "settled"
  /\ call' = IdleCall
  /\ UNCHANGED <<vars, artifact, extra>>

Formats == {"json", "xml"}

ClientNext ==
  \/ \E r \in Resources : ValidateCall(r[1], r[2], NoOptions)
  \/ \E o \in Options : ValidateCall("object", FALSE, o)
  \/ \E r \in Resources, f \in Formats : ValidateBytesCall(r[1], r[2], f)
  \/ \E r \in Resources : ValidateObjectCall(r[1], r[2])
  \/ LoadIGCall
  \/ \E q \in TxParams : TxTestCall(q)
  \/ RequestError
  \/ RequestTimeout
  \/ LateError
  \/ \E st \in Statuses, b \in Bodies : ResponseEnd(st, b)
  \/ CallReturn

ClientSpec == ClientInit /\ [][ClientNext]_allvars

\* the instance without its client calls
LifeNext ==
  \/ \E c \in StartIds, cfg \in Configs : StartCall(c, cfg)
  \/ \E c \in StartIds : EnsureSkipResume(c)
  \/ \E c \in StartIds : EnsureDone(c)
  \/ \E c \in StartIds : EngineAnswer405(c)
  \/ \E c \in StartIds : ProbeFail(c)
  \/ \E c \in StartIds : ProbeOK(c)
  \/ \E c \in StartIds : SleepDone(c)
  \/ \E c \in StartIds : StartReturn(c)
  \/ \E s \in StopIds : StopCall(s)
  \/ \E s \in StopIds : TimerFire(s)
  \/ \E s \in StopIds : StopReturn(s)
  \/ \E p \in ProcIds : Exit(p)
  \/ ErrorEvent

Next ==
  \/ LifeNext
  \/ \E op \in ClientOps : \E a \in ClientArgs(op) : ClientCall(op, a[1], a[2])
  \/ ClientReturn

Spec == Init /\ [][Next]_vars

\* the event loop runs every queued continuation and every expired timer,
\* however often synchronous calls come in between (a settled promise is
\* taken before anything else runs, so weak fairness is enough for it); a
\* child's exit is the environment's and is not assumed
FairSpec ==
  /\ Init /\ [][LifeNext]_vars
  /\ \A c \in StartIds : WF_vars(StartReturn(c)) /\ SF_vars(EnsureSkipResume(c))
  /\ \A s \in StopIds : WF_vars(StopReturn(s)) /\ SF_vars(TimerFire(s))
  /\ SF_vars(ErrorEvent)

\* ------------------------------------------------------ engine output
\* the stdout handler on one line of a chunk: colour escapes are removed and
\* the line is handed to checkForVersion. The pipe delivers what a child
\* wrote also after another child was spawned
StdoutLine(l) ==
  /\ \E p \in ProcIds : procState[p] = "alive"
  /\ ~SettlePending /\ ~MicrotaskPending
  /\ version' = IF LongEnough(StripEscapes(l))
                THEN CheckForVersion(version, StripEscapes(l))
                ELSE version
  /\ banner' = (banner \/ StartsWithBanner(StripEscapes(l)))
  /\ UNCHANGED <<vars, artifact, call, dl, svc>>

\* the configs of the calls whose child's output is followed: complete, the
\* JAR in place
OutConfigs ==
  [hasVersion : {TRUE}, hasTxServer : {TRUE}, hasTxLog : {TRUE},
   port : Ports, timeout : {MaxTimeout},
   autoDownload : {FALSE}, skipUpdateCheck : {FALSE}]

OutNext ==
  \/ \E c \in StartIds, cfg \in OutConfigs : StartCall(c, cfg)
  \/ \E c \in StartIds : EngineAnswer405(c)
  \/ \E c \in StartIds : ProbeFail(c)
  \/ \E c \in StartIds : ProbeOK(c)
  \/ \E c \in StartIds : SleepDone(c)
  \/ \E c \in StartIds : StartReturn(c)
  \/ \E s \in StopIds : StopCall(s)
  \/ \E s \in StopIds : TimerFire(s)
  \/ \E s \in StopIds : StopReturn(s)
  \/ \E p \in ProcIds : Exit(p)
  \/ ErrorEvent
  \/ \E l \in Lines : StdoutLine(l)

OutSpec == Init /\ [][OutNext]_allvars

\* ------------------------------------------------------ downloadFile
\* downloadFile(url, destPath) with the URL of a release asset
DownloadCall(prior) ==
  /\ dl.pc = "idle"
  /\ dl' = DownloadWithRedirects([IdleDownload EXCEPT !.dest = prior,
                                                      !.prior = prior],
                                 "absolute", 0)
  /\ UNCHANGED <<vars, artifact, call, version, banner, svc>>

\* a response with a 3xx status and a Location header
RedirectResponse(loc) ==
  /\ dl.pc = "requesting"
  /\ dl' = DownloadWithRedirects(dl, loc, dl.count + 1)
  /\ UNCHANGED <<vars, artifact, call, version, banner, svc>>

\* any other response: a status other than 200 rejects; on 200 the temp
\* file is opened and the response piped into it
FinalResponse(st) ==
  /\ dl.pc = "requesting"
  /\ dl' = IF st # 200
           THEN [SettleDownload(dl, "downloadFailed")
                   EXCEPT !.pc = "done", !.status = st]
           ELSE [dl EXCEPT !.pc = "streaming", !.temp = "partial",
                           !.status = st]
  /\ UNCHANGED <<vars, artifact, call, version, banner, svc>>

\* the response ended, the file stream finished and was closed: the temp
\* file is renamed to the destination and the promise resolved
StreamFinish ==
  /\ dl.pc = "streaming"
  /\ dl' = [SettleDownload(dl, "resolved")
              EXCEPT !.pc = "done", !.temp = "absent", !.dest = "complete"]
  /\ UNCHANGED <<vars, artifact, call, version, banner, svc>>

\* 'error' of the file stream: the temp file is removed, then reject(err)
FileStreamError ==
  /\ dl.pc = "streaming"
  /\ dl' = [SettleDownload(dl, "fileError")
              EXCEPT !.pc = "done", !.temp = "absent"]
  /\ UNCHANGED <<vars, artifact, call, version, banner, svc>>

\* 'error' of the request, before a response: reject
DownloadRequestError ==
  /\ dl.pc = "requesting"
  /\ dl' = [SettleDownload(dl, "requestError") EXCEPT !.pc = "done"]
  /\ UNCHANGED <<vars, artifact, call, version, banner, svc>>

\* the response stream fails during the transfer: it has no 'error'
\* handler and pipe() does not end the file stream, so nothing more happens
ResponseStreamError ==
  /\ dl.pc = "streaming"
  /\ dl' = [dl EXCEPT !.pc = "stalled"]
  /\ UNCHANGED <<vars, artifact, call, version, banner, svc>>

\* the timeout of the request, before or during the transfer:
\* req.destroy(); reject('Download timeout')
DownloadTimeout ==
  /\ dl.pc \in {"requesting", "streaming"}
  /\ dl' = [SettleDownload(dl, "timeout") EXCEPT !.pc = "done"]
  /\ UNCHANGED <<vars, artifact, call, version, banner, svc>>

DownloadNext ==
  \/ \E prior \in PriorDest : DownloadCall(prior)
  \/ \E loc \in Locations : RedirectResponse(loc)
  \/ \E st \in FinalStatuses : FinalResponse(st)
  \/ StreamFinish
  \/ FileStreamError
  \/ DownloadRequestError
  \/ ResponseStreamError
  \/ DownloadTimeout

DownloadSpec == Init /\ [][DownloadNext]_allvars

\* ------------------------------------------------------ legacy service
\* configureJava(jar, options): ok is whether the classpath set-up succeeds
ConfigureJava(ok) ==
  /\ svc' = IF svc.javaConfigured
            THEN [svc EXCEPT !.last = ServiceCall(svc, "configureJava", TRUE, FALSE)]
            ELSE IF ok
            THEN [svc EXCEPT !.javaConfigured = TRUE, !.configured = TRUE,
                             !.last = ServiceCall(svc, "configureJava", FALSE, FALSE)]
            ELSE [svc EXCEPT !.last = ServiceCall(svc, "configureJava", TRUE, FALSE)]
  /\ UNCHANGED <<vars, artifact, call, version, banner, dl>>

\* initialize(pack) up to its await: made is whether the import and the
\* construction of NativeHostServices succeed
InitializeCall(made) ==
  /\ svc.pending < MaxInits
  /\ svc' = IF ~svc.javaConfigured \/ ~made
            THEN [svc EXCEPT !.last = ServiceCall(svc, "initialize", TRUE, FALSE)]
            ELSE [svc EXCEPT !.nativeHostServices = TRUE,
                             !.pending = svc.pending + 1]
  /\ UNCHANGED <<vars, artifact, call, version, banner, dl>>

\* the native init of an initialize call has answered
InitializeDone(ok) ==
  /\ svc.pending > 0
  /\ svc' = IF ok
            THEN [svc EXCEPT !.initialized = TRUE, !.ready = TRUE,
                             !.pending = svc.pending - 1,
                             !.last = ServiceCall(svc, "initialize", FALSE, FALSE)]
            ELSE [svc EXCEPT !.pending = svc.pending - 1,
                             !.last = ServiceCall(svc, "initialize", TRUE, FALSE)]
  /\ UNCHANGED <<vars, artifact, call, version, banner, dl>>

\* one of the guarded operations, to its settlement: it throws when the
\* validator is not initialized, when the native object is missing (the
\* method lookup on null throws inside the try) and when the engine fails
ServiceOp(op, ok) ==
  /\ svc' = [svc EXCEPT !.last =
              ServiceCall(svc, op,
                          ~svc.initialized \/ ~svc.nativeHostServices \/ ~ok,
                          FALSE)]
  /\ UNCHANGED <<vars, artifact, call, version, banner, dl>>

\* shutdown()
Shutdown ==
  /\ svc' = [svc EXCEPT !.nativeHostServices = FALSE, !.initialized = FALSE,
                        !.ready = FALSE,
                        !.last = ServiceCall(svc, "shutdown", FALSE, FALSE)]
  /\ UNCHANGED <<vars, artifact, call, version, banner, dl>>

\* isReady()
IsReadyCall ==
  /\ svc' = [svc EXCEPT !.last = ServiceCall(svc, "isReady", FALSE, IsReady(svc))]
  /\ UNCHANGED <<vars, artifact, call, version, banner, dl>>

LegacyNext ==
  \/ \E ok \in BOOLEAN : ConfigureJava(ok)
  \/ \E made \in BOOLEAN : InitializeCall(made)
  \/ \E ok \in BOOLEAN : InitializeDone(ok)
  \/ \E op \in ServiceOps, ok \in BOOLEAN : ServiceOp(op, ok)
  \/ Shutdown
  \/ IsReadyCall

LegacySpec == Init /\ [][LegacyNext]_allvars

\* the configs of calls whose readiness wait is followed: complete, with
\* a timeout of 0 or of MaxWait seconds
WaitConfigs ==
  [hasVersion : {TRUE}, hasTxServer : {TRUE}, hasTxLog : {TRUE},
   port : Ports, timeout : {0, MaxWait},
   autoDownload : BOOLEAN, skipUpdateCheck : BOOLEAN]

WaitNext ==
  \/ \E c \in StartIds, cfg \in WaitConfigs : StartCall(c, cfg)
  \/ \E c \in StartIds : EnsureSkipResume(c)
  \/ \E c \in StartIds : EnsureDone(c)
  \/ \E c \in StartIds : EngineAnswer405(c)
  \/ \E c \in StartIds : ProbeFail(c)
  \/ \E c \in StartIds : ProbeOK(c)
  \/ \E c \in StartIds : SleepDone(c)
  \/ \E c \in StartIds : StartReturn(c)
  \/ \E s \in StopIds : StopCall(s)
  \/ \E s \in StopIds : TimerFire(s)
  \/ \E s \in StopIds : StopReturn(s)
  \/ \E p \in ProcIds : Exit(p)
  \/ ErrorEvent

\* every promise a start() call awaits settles: the requests of
\* ensureValidator and the health probe have timeouts, and the 1 s sleep is
\* a timer; whether the engine answers or exits is the environment's
Continue(c) ==
  \/ EnsureSkipResume(c) \/ EnsureDone(c)
  \/ ProbeFail(c) \/ ProbeOK(c) \/ SleepDone(c)
  \/ StartReturn(c)

WaitSpec ==
  /\ Init /\ [][WaitNext]_vars
  /\ \A c \in StartIds : SF_vars(Continue(c))
  /\ \A s \in StopIds : WF_vars(StopReturn(s))
  /\ SF_vars(ErrorEvent)

\* ------------------------------------------------------------------ claims
Alive == {p \in ProcIds : procState[p] = "alive"}

\* the steps in which the call c of start(), the call s of stop(), is made
StartCalled(c) == starts[c].pc = "idle" /\ starts'[c].pc # "idle"
StopCalled(s) == stops[s].pc = "idle" /\ stops'[s].pc # "idle"

\* the step in which the start() call c is rejected for the readiness timeout
TimeoutStep(c) ==
  /\ starts[c].pc # "done"
  /\ starts'[c].pc = "done"
  /\ starts'[c].result = "ReadyTimeout"

\* C1: in every reachable state at most one child spawned by the instance
\* is alive (spawned and not yet exited)
AtMostOneEngineAlive == Cardinality(Alive) <= 1

\* C2: isReady holds only while a handle is held and a health probe was
\* answered 405 since that handle was assigned
ReadyOnlyWithProbedHandle == isReady => (process # Null /\ okSince)

\* C3: start() called while a handle is held is rejected as already running,
\* whatever the config, and spawns nothing and changes no runtime field
DoubleStartRejected ==
  [][\A c \in StartIds :
       (StartCalled(c) /\ process # Null) =>
         /\ starts'[c].pc = "done"
         /\ starts'[c].result = "AlreadyRunning"
         /\ UNCHANGED <<process, port, baseUrl, isReady, procState, killed,
                        errorPending, jarExists>>]_vars

DoubleStartSeen ==
  \E c \in StartIds :
    /\ starts[c].result = "AlreadyRunning"
    /\ ~starts[c].has.txLog
    /\ process = Failed

\* C4: with no handle held, start() with version, txServer or txLog absent
\* is rejected for its configuration in the step of the call: nothing is
\* looked up, downloaded or spawned and the runtime fields stay unset
InvalidConfigRejectedFirst ==
  [][\A c \in StartIds :
       (/\ StartCalled(c)
        /\ process = Null
        /\ starts'[c].has # AllThree) =>
         /\ starts'[c].pc = "done"
         /\ starts'[c].result = "InvalidConfig"
         /\ process' = Null /\ port' = Null /\ baseUrl' = NullUrl
         /\ UNCHANGED <<isReady, procState, killed, errorPending, jarExists>>]_vars

InvalidConfigSeen ==
  \E c \in StartIds :
    /\ starts[c].result = "InvalidConfig"
    /\ process = Null /\ port = Null /\ baseUrl = NullUrl /\ ~isReady
    /\ Alive = {}

\* C5: while isReady is false, validate, loadIG and runTxTest are rejected
\* as not ready, whatever their arguments, and send no request
NotReadyRejectsFirst ==
  (client.op \in GuardedOps /\ ~isReady) => client.outcome = "NotReady"

NotReadySeen ==
  /\ client.op = "runTxTest"
  /\ ~client.paramsOK
  /\ client.outcome = "NotReady"
  /\ process # Null

\* C6: after the held child has exited unrequested, the state is not ready
\* and validate, loadIG and runTxTest are rejected as not ready (stated for
\* the span in which start() has not even been called again)
CrashKeepsNotReady ==
  crashEra =>
    /\ ~isReady
    /\ (client.op \in GuardedOps => client.outcome = "NotReady")

\* C7: every stop() call resolves: at once when no handle is held, else on
\* the child's exit event or, failing that, when its timer fires
StopAlwaysResolves ==
  /\ \A s \in StopIds : (stops[s].pc = "waiting") ~> (stops[s].pc = "resolved")
  /\ [][\A s \in StopIds :
          (StopCalled(s) /\ process = Null) => stops'[s].pc = "resolved"]_vars

StopResolvedByTimer == \E s \in StopIds : stops[s].via = "timer"

\* C8: when a stop() call resolves, the handle, port and baseUrl are unset
\* and isReady is false
StopResolvedMeansCleared ==
  \A s \in StopIds :
    stops[s].pc = "resolved" =>
      (process = Null /\ port = Null /\ baseUrl = NullUrl /\ ~isReady)

\* C9: stop() with no handle held resolves at once, sends no signal, starts
\* no timer and changes no runtime field
StopWithoutHandleIsNoop ==
  [][\A s \in StopIds :
       (StopCalled(s) /\ process = Null) =>
         /\ stops'[s] = Resolved("atOnce")
         /\ \A t \in StopIds \ {s} : stops'[t] = stops[t]
         /\ UNCHANGED <<process, port, baseUrl, isReady, procState, killed>>]_vars

StopWithoutHandleSeen ==
  \E s \in StopIds : stops[s].via = "atOnce" /\ process = Null

\* C10 as stated: when start() is rejected for the readiness timeout, the
\* child is not killed, the handle is set and isReady is false (so that a
\* further start() meets the already-running guard)
TimeoutLeavesHandleHeld ==
  [][\A c \in StartIds :
       TimeoutStep(c) => (process' # Null /\ ~isReady' /\ killed' = killed)]_vars

\* C10 as amended: the rejection for the readiness timeout sends no signal,
\* ends no child, clears no handle and leaves isReady as it is; and start()
\* is rejected as already running whenever a handle is held
TimeoutChangesNothing ==
  /\ [][\A c \in StartIds :
          TimeoutStep(c) =>
            /\ killed' = killed
            /\ isReady' = isReady
            /\ (process # Null => process' # Null)
            /\ (port # Null => port' # Null)
            /\ (baseUrl # NullUrl => baseUrl' # NullUrl)
            /\ \A p \in Alive : procState'[p] = "alive"]_vars
  /\ [][\A c \in StartIds :
          (StartCalled(c) /\ process # Null) =>
            starts'[c].result = "AlreadyRunning"]_vars

TimeoutWithChildAlive ==
  \E c \in StartIds :
    /\ starts[c].result = "ReadyTimeout"
    /\ process \in Alive
    /\ ~isReady

\* C11: a failed spawn sets no handle (start() is rejected with the failure
\* and a following start() is not refused as already running)
SpawnFailureSetsNoHandle == process # Failed

\* C12: at the moment a start() call resolves, isRunning() is true: a handle
\* is held and isReady is true
ResolvedStartIsRunning ==
  \A c \in StartIds :
    (starts[c].pc = "done" /\ starts[c].result = "resolved") =>
      (process # Null /\ isReady)

\* C13: with no handle held and a complete config, start() with autoDownload
\* disabled and the JAR absent is rejected as artifact missing in the step
\* of the call: nothing is looked up, downloaded or spawned and the runtime
\* fields stay unset
ArtifactMissingRejected ==
  [][\A c \in StartIds :
       (/\ StartCalled(c)
        /\ process = Null
        /\ starts'[c].has = AllThree
        /\ ~starts'[c].auto
        /\ ~jarExists) =>
         /\ starts'[c].pc = "done"
         /\ starts'[c].result = "ArtifactMissing"
         /\ process' = Null /\ port' = Null /\ baseUrl' = NullUrl
         /\ UNCHANGED <<isReady, procState, killed, errorPending, jarExists>>]_vars

ArtifactMissingSeen ==
  \E c \in StartIds :
    /\ starts[c].result = "ArtifactMissing"
    /\ ~starts[c].auto /\ starts[c].has = AllThree
    /\ process = Null /\ ~jarExists /\ ~isReady

\* C14: a child is spawned only in a step after which the JAR exists; and
\* when ensureValidator rejects, start() is rejected in that step, nothing
\* is spawned and no runtime field changes, a JAR being present or not
SpawnOnlyWithBinary ==
  /\ [][(process' # process /\ process' # Null) => jarExists']_vars
  /\ [][\A p \in ProcIds :
          (procState[p] = "none" /\ procState'[p] = "alive") => jarExists']_vars
  /\ [][\A c \in StartIds :
          (starts[c].pc = "ensuring" /\ starts'[c].pc # "ensuring") =>
            \/ jarExists' /\ process' # Null /\ starts'[c].result # "ArtifactError"
            \/ /\ starts'[c].pc = "done"
               /\ starts'[c].result = "ArtifactError"
               /\ UNCHANGED <<process, port, baseUrl, isReady, procState,
                              killed, jarExists>>]_vars

EnsureRejectedWithBinaryPresent ==
  \E c \in StartIds :
    /\ starts[c].result = "ArtifactError"
    /\ jarExists
    /\ process = Null

\* C15: ensureValidator with skipUpdateCheck set, force unset and the JAR
\* present returns at once: no network request, JAR and sidecar as they
\* were, downloaded and updated false, and as version the tag the sidecar
\* records, or "unknown" when it records none
SkipPathTouchesNothing ==
  (ens.pc # "idle" /\ ens.skip /\ ~ens.force /\ ens.before[1]) =>
    /\ ens.pc = "done"
    /\ ens.outcome = "ok"
    /\ ens.net = 0
    /\ files = ens.before
    /\ ~ens.downloaded /\ ~ens.updated
    /\ ens.version = IF ens.before[3].kind = "json" /\ ens.before[3].version \in Tags
                       THEN ens.before[3].version ELSE Unknown

SkipPathWithoutVersionSeen ==
  /\ ens.pc = "done" /\ ens.skip /\ ~ens.force /\ ens.before[1]
  /\ sidecar.kind = "corrupt"
  /\ ens.version = Unknown

\* C16: once the lookup has answered, ensureValidator downloads exactly when
\* force is set, or the JAR is missing, or the sidecar records no version,
\* or the recorded version is not the string of the latest tag; otherwise
\* it reports downloaded false and leaves the files as they were
DownloadsExactlyWhenNeeded ==
  (ens.pc \in {"downloading", "done"} /\ ens.latest # NoTag) =>
    LET rec == ens.before[3]
        need == \/ ens.force
                \/ ~ens.before[1]
                \/ ~(rec.kind = "json" /\ rec.version \in Tags)
                \/ rec.version # ens.latest
    IN /\ (ens.net = 2) = need
       /\ ~need => /\ ens.pc = "done" /\ ens.outcome = "ok"
                   /\ ~ens.downloaded /\ ~ens.updated
                   /\ ens.version = rec.version
                   /\ files = ens.before

OlderTagDownloaded ==
  /\ ens.pc = "done" /\ ens.downloaded /\ ~ens.force
  /\ ens.before[1]
  /\ ens.before[3] = JsonFile("6.4.0", UrlOf("6.4.0"))
  /\ ens.latest = "6.3.4"

\* C17: after ensureValidator() on a target without JAR and sidecar has
\* reported downloaded true, and with upstream unchanged, the next
\* ensureValidator() that resolves reports downloaded false, updated false
\* and the same version, and changes no file
SecondEnsureDownloadsNothing ==
  (/\ ens.pc = "done" /\ ens.outcome = "ok"
   /\ ~ens.force /\ ~ens.skip
   /\ prev.ok) =>
    /\ ~ens.downloaded /\ ~ens.updated
    /\ ens.version = prev.version
    /\ ens.net = 1
    /\ files = ens.before

SecondEnsureSeen ==
  /\ ens.pc = "done" /\ ens.outcome = "ok"
  /\ ~ens.force /\ ~ens.skip
  /\ prev.ok
  /\ ens.version \in Tags /\ ~ens.downloaded

\* C18: a download reports updated true exactly when the sidecar recorded a
\* version before and that version is not the latest
UpdatedOnlyOverPriorVersion ==
  (ens.pc = "done" /\ ens.outcome = "ok" /\ ens.downloaded) =>
    (ens.updated =
       (/\ ens.before[3].kind = "json"
        /\ ens.before[3].version \in Tags
        /\ ens.before[3].version # ens.latest))

\* C19: the sidecar changes only in the step in which a download completes,
\* after which the JAR is the one downloaded and the sidecar records its
\* version and URL; when the lookup or the download fails, JAR and sidecar
\* are as they were at the call
SidecarOnlyAfterDownload ==
  /\ [][sidecar' # sidecar =>
          /\ ens.pc = "downloading" /\ ens'.pc = "done" /\ ens'.outcome = "ok"
          /\ jarExists' /\ jarContent' = ens.latest
          /\ sidecar' = JsonFile(ens.latest, UrlOf(ens.latest))]_allvars
  /\ [](ens.pc = "done" /\ ens.outcome \in {"LookupError", "DownloadError"}
          => files = ens.before)

FailedDownloadSeen ==
  /\ ens.pc = "done" /\ ens.outcome = "DownloadError"
  /\ jarExists /\ sidecar.kind = "json" /\ sidecar.version \in Tags

\* C20: getInstalledVersion() does not throw, returns null when the sidecar
\* is missing or cannot be parsed, and changes no file
GetInstalledVersionNeverThrows ==
  /\ [](giv.called =>
          /\ giv.value # "throws"
          /\ sidecar.kind \in {"missing", "corrupt"} => giv.value = NullVersion)
  /\ [][(~giv.called /\ giv'.called) => UNCHANGED files]_allvars

CorruptSidecarRead ==
  giv.called /\ sidecar.kind = "corrupt" /\ giv.value = NullVersion

\* C21: after saveVersionInfo(v, u), whatever the sidecar was before,
\* getInstalledVersion() returns v and the sidecar holds version v,
\* downloadUrl u and a downloadedAt timestamp
SaveThenReadRoundTrip ==
  (giv.called /\ saved.valid) =>
    /\ giv.value = saved.version
    /\ sidecar.kind = "json"
    /\ sidecar.version = saved.version
    /\ sidecar.downloadUrl = saved.url
    /\ sidecar.downloadedAt # Undefined

SavedOverCorruptRead ==
  /\ giv.called /\ saved.valid
  /\ saved.over = "corrupt"
  /\ saved.url # UrlOf(saved.version)
  /\ giv.value = saved.version

\* C22: once the readiness and required-parameter checks of runTxTest have
\* passed, its promise is never rejected: it is resolved, and a transport
\* error, a timeout, a status of 400 or more, a body that does not parse and
\* a body of an unexpected shape are each resolved to result false with a
\* message
TxTestNeverRejects ==
  (/\ call.op = "runTxTest"
   /\ call.phase = "settled"
   /\ call.guard \notin {"NotReady", "MissingParam"}) =>
     /\ call.settle = "resolved"
     /\ (\/ call.via \in {"error", "timeout"}
         \/ call.status >= HttpErrorFrom
         \/ call.body.parse \in {"fail", "null"}
         \/ call.body.shape = "object") =>
          (~call.result.result /\ Truthy(call.result.message))

\* C23: runTxTest classifies a received response in this order: a status of
\* 400 or more is result false whatever the body; else a body that is no
\* OperationOutcome is result false; else an outcome without issues is
\* result true; else an outcome with an issue of severity error is result
\* false with the detail text, or else the diagnostics, of the first such
\* issue as message; else the result is true. An issue property that is no
\* list is a body of unexpected shape
TxClassificationPrecedence ==
  (call.op = "runTxTest" /\ call.phase = "settled" /\ call.via = "response") =>
    LET b == call.body
        r == call.result
        l == b.issue
    IN  IF call.status >= HttpErrorFrom THEN ~r.result
        ELSE IF b.parse # "ok" \/ b.resourceType # "OperationOutcome" THEN ~r.result
        ELSE IF b.shape = "object" THEN TRUE
        ELSE IF b.shape = "absent" \/ Len(l) = 0 THEN r.result
        ELSE IF \E i \in 1..Len(l) : l[i].severity = "error"
          THEN /\ ~r.result
               /\ \E i \in 1..Len(l) :
                    /\ l[i].severity = "error"
                    /\ \A j \in 1..(i - 1) : l[j].severity # "error"
                    /\ Truthy(l[i].text) => r.message = l[i].text
                    /\ (~Truthy(l[i].text) /\ Truthy(l[i].diagnostics)) =>
                         r.message = l[i].diagnostics
        ELSE r.result

\* witness of C23: a warning followed by an error, answered with status 200,
\* is reported with the text of the error
TxFirstErrorReported ==
  /\ call.op = "runTxTest" /\ call.phase = "settled" /\ call.via = "response"
  /\ call.status < HttpErrorFrom
  /\ call.body.shape = "array" /\ Len(call.body.issue) = 2
  /\ call.body.issue[1].severity = "warning"
  /\ call.result = Fail(<<"t2">>)

\* C24: a value runTxTest resolves to has a message exactly when its result is
\* false: result true has none, result false has one that is not empty
TxMessageIffFailed ==
  (call.op = "runTxTest" /\ call.phase = "settled" /\ call.settle = "resolved") =>
    /\ call.result.result => ~call.result.message.given
    /\ ~call.result.result => Truthy(call.result.message)

\* witness of C24: an error issue with neither text nor diagnostics
TxDefaultMessageSeen ==
  /\ call.op = "runTxTest" /\ call.phase = "settled" /\ call.settle = "resolved"
  /\ call.via = "response"
  /\ call.body.shape = "array" /\ Len(call.body.issue) = 1
  /\ ~Truthy(call.body.issue[1].text) /\ ~Truthy(call.body.issue[1].diagnostics)
  /\ ~call.result.result
  /\ Truthy(call.result.message)

\* C25: with the service ready, runTxTest without server, suiteName, testName
\* or version is rejected as missing a parameter and sends no request;
\* externalFile and modes are sent exactly when they are given
TxMissingParamRejected ==
  (call.op = "runTxTest" /\ call.phase # "idle" /\ isReady) =>
    /\ (~(call.params.server /\ call.params.suiteName
          /\ call.params.testName /\ call.params.version)) =>
         (/\ call.settle = "rejected"
          /\ call.error = "MissingParam"
          /\ ~call.req.sent
          /\ call.via = "none")
    /\ call.req.sent =>
         /\ \A n \in {"server", "suite", "test", "version"} : call.req.query[n].set
         /\ call.req.query["externalFile"].set <=> call.params.externalFile
         /\ call.req.query["modes"].set <=> call.params.modes

\* witness of C25: only version is missing
TxMissingVersionRejected ==
  /\ call.op = "runTxTest" /\ call.phase = "settled" /\ isReady
  /\ call.params.server /\ call.params.suiteName /\ call.params.testName
  /\ ~call.params.version
  /\ call.error = "MissingParam"

\* C26: validateBytes of something that is no Buffer, and validateObject of
\* null or of something that is no object, are rejected with the type error
\* and without a request, whether the service is ready or not
TypeAssertionFirst ==
  (/\ call.phase # "idle"
   /\ \/ call.op = "validateBytes" /\ call.kind # "buffer"
      \/ call.op = "validateObject" /\ call.kind \in {"null", "string", "number"}) =>
     /\ call.phase = "settled"
     /\ call.settle = "rejected"
     /\ call.error = "TypeError"
     /\ ~call.req.sent
     /\ call.via = "none"

\* witness of C26: validateObject(null) on a wrapper that is not ready
NullObjectRejectedNotReady ==
  /\ ~isReady
  /\ call.op = "validateObject" /\ call.kind = "null"
  /\ call.error = "TypeError"

\* C27: validate takes the content type from the input alone: a string or
\* Buffer starting with '<' goes as XML, any other string or Buffer as JSON,
\* an object as JSON; an input of any other type is rejected and nothing is
\* sent
ContentTypeFromInput ==
  (call.op = "validate" /\ call.phase # "idle" /\ isReady) =>
    /\ (call.kind \in {"string", "buffer"} /\ call.req.sent) =>
         call.req.contentType =
           (IF call.markup THEN "application/fhir+xml" ELSE "application/fhir+json")
    /\ (call.kind = "object" /\ call.req.sent) =>
         call.req.contentType = "application/fhir+json"
    /\ call.kind \notin {"string", "buffer", "object"} =>
         (call.settle = "rejected" /\ ~call.req.sent)

\* C28: the content type of the request validateBytes sends is the one its
\* format argument names
FormatDecidesContentType ==
  (call.op = "validateBytes" /\ call.req.sent) =>
    call.req.contentType =
      (IF call.format = "xml" THEN "application/fhir+xml" ELSE "application/fhir+json")

\* C29: validate sends a query parameter for an option exactly when the
\* option is supplied: profiles when the list is not empty, as its
\* identifiers joined by ','; anyExtensionsAllowed as "true" or "false";
\* and no parameter is sent with an empty value
OptionSentWhenSupplied ==
  (call.op = "validate" /\ call.req.sent) =>
    LET o == call.opts
        q == call.req.query
    IN  /\ q["profiles"].set <=> (o.profiles.given /\ Len(o.profiles.list) > 0)
        /\ q["profiles"].set => q["profiles"].text = Join(o.profiles.list)
        /\ q["anyExtensionsAllowed"].set <=> o.anyExtensionsAllowed.given
        /\ q["anyExtensionsAllowed"].set =>
             q["anyExtensionsAllowed"].text =
               (IF o.anyExtensionsAllowed.value THEN <<"true">> ELSE <<"false">>)
        /\ \A n \in {"resourceIdRule", "bpWarnings", "displayOption"} :
             /\ q[n].set <=> Truthy(o[n])
             /\ q[n].set => q[n].text = o[n].text
        /\ \A n \in ParamNames : q[n].set => ~Empty(q[n].text)

\* C30: past the checks of its inputs and of readiness, the promise of
\* validate and of loadIG is rejected on a transport error, on the request
\* timeout and on a body that does not parse (the error holding the raw
\* body), and is otherwise resolved with the parsed body whatever the status
RequestPromiseSettlement ==
  (/\ call.op \in {"validate", "validateBytes", "validateObject", "loadIG"}
   /\ call.phase = "settled"
   /\ call.guard \notin {"NotReady", "TypeError", "BadResource"}) =>
     IF call.via \in {"error", "timeout"} THEN call.settle = "rejected"
     ELSE IF call.via = "response" /\ call.body.parse = "fail"
       THEN call.settle = "rejected" /\ call.parsed = call.body
     ELSE call.settle = "resolved" /\ call.parsed = call.body

\* C31: of two start() calls that overlap at most one spawns a child: two
\* calls are never both past their spawn and waiting for readiness with two
\* children alive
OverlappingStartsSpawnOnce ==
  \A c, d \in StartIds :
    (/\ c # d
     /\ starts[c].pc \in {"probing", "answered", "sleeping"}
     /\ starts[d].pc \in {"probing", "answered", "sleeping"}) =>
       Cardinality({p \in ProcIds : procState[p] = "alive"}) < 2

\* C32: the exit event of a child that is not the handle held leaves the
\* handle, port, baseUrl and isReady of the child held as they are
StaleExitKeepsCurrent ==
  [][\A p \in ProcIds :
       (/\ procState[p] = "alive" /\ procState'[p] = "none"
        /\ process # Null /\ process # p) =>
         UNCHANGED <<process, port, baseUrl, isReady>>]_vars

\* C33: when stop() was called while a start() call was in progress, and
\* start() was not called again, then once both calls have settled no
\* handle is held and isReady is false
StopDuringStartClears ==
  (/\ \E c \in StartIds : starts[c].pc = "done" /\ starts[c].stopped
   /\ \A c \in StartIds : starts[c].pc \in {"idle", "done"}
   /\ \A s \in StopIds : stops[s].pc \in {"idle", "resolved"}) =>
     (process = Null /\ ~isReady)

\* C36: when the timer of a stop() call fires while the child the call
\* signalled is still held and has not exited, the callback sends that child
\* a further kill signal, clears the state and resolves
TimerEscalates ==
  [][\A s \in StopIds :
       (/\ stops[s].pc = "waiting"
        /\ stops'[s] = Resolved("timer")
        /\ process = stops[s].target
        /\ process \in ProcIds
        /\ procState[process] = "alive") =>
         /\ TimerKills
         /\ process' = Null /\ port' = Null /\ baseUrl' = NullUrl /\ ~isReady']_vars

StopOrExitClearsAll ==
  /\ [](\A s \in StopIds :
          stops[s].pc = "resolved" =>
            /\ process = Null /\ port = Null /\ baseUrl = NullUrl /\ ~isReady
            /\ version = Undefined)
  /\ [][\A p \in ProcIds :
          (procState[p] = "alive" /\ procState'[p] = "none" /\ p = process) =>
            /\ process' = Null /\ port' = Null /\ baseUrl' = NullUrl /\ ~isReady'
            /\ version' = Undefined]_allvars

\* C35: the version is assigned at most once: the first line that starts
\* with the banner sets it to the version the line names, and no line read
\* after that one changes it
VersionAssignedOnce ==
  [][/\ banner => version' = version
     /\ (~banner /\ banner') => version' # version]_allvars

\* C38: a redirect is followed with a new request while no more than 5
\* redirects were received, the redirect after the fifth rejects with the
\* too-many-redirects error, and a final status other than 200 rejects with
\* the download error leaving the destination as it was and no temp file
RedirectsFollowedUpToFive ==
  /\ [][(dl.pc = "requesting" /\ dl'.count = dl.count + 1) =>
          IF dl'.count <= MaxRedirects
          THEN dl'.pc = "requesting" /\ dl'.outcome = "none"
          ELSE dl'.pc = "done" /\ dl'.outcome = "tooManyRedirects"]_allvars
  /\ [](dl.outcome = "downloadFailed" =>
          dl.dest = dl.prior /\ dl.temp = "absent")

\* C39: the destination changes only in the step that ends the stream, to
\* the complete payload, and when the call has rejected after the temp file
\* was created, the temp file does not exist
TempRemovedOnFailure ==
  /\ [][dl'.dest # dl.dest /\ dl.pc # "idle" =>
          dl.pc = "streaming" /\ dl'.dest = "complete"
          /\ dl'.outcome = "resolved"]_allvars
  /\ [](dl.outcome \in {"fileError", "timeout"} =>
          dl.temp = "absent")

\* C40: initialize throws unless configureJava has succeeded; configureJava
\* throws once it has succeeded; a guarded operation throws unless
\* initialize has succeeded with no shutdown since; and isReady() returns
\* true exactly when initialize has succeeded with no shutdown since
LegacyLifecycleOrder ==
  /\ (svc.last.op = "initialize" /\ ~svc.last.configured) => svc.last.threw
  /\ (svc.last.op = "configureJava" /\ svc.last.configured) => svc.last.threw
  /\ (svc.last.op \in ServiceOps /\ ~svc.last.ready) => svc.last.threw
  /\ svc.last.op = "isReady" => (svc.last.value <=> svc.last.ready)

====
